---- MODULE Spec2Model ----
(***************************************************************************)
(* TLS client-policy layer of scrapy/core/downloader/contextfactory.py:    *)
(* the context factories (base, browser-trust, acceptable-protocols        *)
(* wrapper) and load_context_factory_from_settings.                        *)
(*                                                                         *)
(* Objects live in heaps indexed by an allocation counter (nextId), so     *)
(* that object identity ("fresh", "the same object") is observable.        *)
(* An option mask is the set of its bit positions: 0 is {}, 0x4 is {2},    *)
(* and bitwise OR is set union.                                            *)
(***************************************************************************)
EXTENDS Integers, Sequences, FiniteSets, TLC

VARIABLES
    ssl,              \* names the OpenSSL.SSL module exposes (hasattr(SSL, name))
    module,           \* import state of scrapy.core.downloader.contextfactory
    openssl_methods,  \* the name -> method table imported from scrapy.core.downloader.tls
    factories,        \* heap: id -> context factory object
    certopts,         \* heap: id -> twisted CertificateOptions object
    contexts,         \* heap: id -> OpenSSL.SSL.Context object
    configs,          \* heap: id -> ClientTLSOptions object (per-connection config)
    nextId,           \* next object id to allocate
    calls,            \* history of the method calls made on factories
    result,           \* outcome of the last operation
    trace,            \* events of the last load_context_factory_from_settings call, in order
    warnings          \* warnings emitted so far (categories, in order)

vars == <<ssl, module, openssl_methods, factories, certopts, contexts, configs,
          nextId, calls, result, trace, warnings>>

----------------------------------------------------------------------------
(* Bounds *)

MaxCalls == 3         \* method calls made on factories in one behaviour
MaxWrappers == 2      \* AcceptableProtocolsContextFactory objects in one behaviour
MaxWrapperCalls == 1  \* calls made on wrapped factories in one behaviour
MaxResolves == 1      \* load_context_factory_from_settings calls in one behaviour

----------------------------------------------------------------------------
(* The OpenSSL.SSL namespace *)

MethodSymbols == {"TLS_METHOD", "SSLv23_METHOD"}

DisableSymbols == {"OP_NO_TLSv1", "OP_NO_TLSv1_1", "OP_NO_SSLv2", "OP_NO_SSLv3"}

FlagSymbols == DisableSymbols \cup {"OP_LEGACY_SERVER_CONNECT"}

SSLSymbols == MethodSymbols \cup FlagSymbols

\* value of SSL.<name>; a method constant is denoted by its name, an option
\* flag by the set of its bit positions
SSLValue(name) ==
    CASE name = "OP_LEGACY_SERVER_CONNECT" -> {2}
      [] name = "OP_NO_SSLv2" -> {24}
      [] name = "OP_NO_SSLv3" -> {25}
      [] name = "OP_NO_TLSv1" -> {26}
      [] name = "OP_NO_TLSv1_1" -> {28}
      [] OTHER -> name

NoneVal == "None"

Omitted == "<omitted>"

\* getattr(SSL, name, default)
GetAttr(name, default) == IF name \in ssl THEN SSLValue(name) ELSE default

\* explicit methods a caller passes
ExplicitMethods == {"TLSv1_2_METHOD", "SSLv23_METHOD"}

----------------------------------------------------------------------------
(* Cipher specifications *)

None == [some |-> FALSE]

Some(v) == [some |-> TRUE, val |-> v]

\* ciphers the TLS library knows, in its preference order
LibraryCiphers == <<"AES256", "AES128">>

\* a cipher string is the sequence of its ':'-separated tokens
CipherStrings ==
    { <<>>, <<"AES128">>, <<"AES128", "AES256">>, <<"AES128", "AES128">>,
      <<"BOGUS">>, <<"BOGUS", "AES256">> }

RECURSIVE Dedup(_)
Dedup(s) ==
    IF s = <<>> THEN <<>>
    ELSE LET front == Dedup(SubSeq(s, 1, Len(s) - 1))
             last == s[Len(s)]
         IN  IF \E i \in 1..Len(front) : front[i] = last THEN front
             ELSE Append(front, last)

RECURSIVE Expand(_)
\* the ciphers a cipher string selects, in the string's order
Expand(s) ==
    IF s = <<>> THEN <<>>
    ELSE LET tok == Head(s)
             sel == IF tok = "DEFAULT" THEN LibraryCiphers
                    ELSE SelectSeq(LibraryCiphers, LAMBDA c : c = tok)
         IN  Dedup(sel \o Expand(Tail(s)))

\* AcceptableCiphers.fromOpenSSLCipherString: the outcomes a twisted/OpenSSL
\* build can produce.  A string that selects no cipher either raises or
\* yields an empty AcceptableCiphers, depending on the library version.
fromOpenSSLCipherString(s) ==
    IF Expand(s) # <<>> THEN { [exc |-> NoneVal, val |-> Expand(s)] }
    ELSE { [exc |-> NoneVal, val |-> <<>>], [exc |-> "SSLError", val |-> <<>>] }

ValidCipherString(s) == Expand(s) # <<>>

DEFAULT_CIPHERS == Expand(<<"DEFAULT">>)

----------------------------------------------------------------------------
(* Hostnames: byte strings *)

Hostnames == { <<101, 46, 99>>, <<233, 46, 99>> }

IsAscii(b) == \A i \in 1..Len(b) : b[i] < 128

\* bytes.decode("ascii")
DecodeAscii(b) == [str |-> b]

----------------------------------------------------------------------------
(* Factory classes *)

BaseCls == "ScrapyClientContextFactory"

BrowserCls == "BrowserLikeContextFactory"

\* a user subclass of the base factory that overrides getContext()
OverridingCls == "GetContextOverridingFactory"

WrapperCls == "AcceptableProtocolsContextFactory"

ScrapyClasses == {BaseCls, BrowserCls, OverridingCls}

\* scrapy.utils.deprecate.method_is_overridden(cls, ScrapyClientContextFactory, "getContext")
method_is_overridden(cls) == cls = OverridingCls

NoResult == [op |-> "none", exc |-> NoneVal, ret |-> 0]


NoObj == [cls |-> NoneVal]

EmptyHeap == [i \in {} |-> NoObj]

----------------------------------------------------------------------------
(* ScrapyClientContextFactory.__init__ *)

\* Capability probe of line 63.  Python evaluates the default argument
\* getattr(SSL, "SSLv23_METHOD") before the outer getattr is called.
ProbeMethod ==
    IF "SSLv23_METHOD" \notin ssl
    THEN [exc |-> "AttributeError", val |-> NoneVal]
    ELSE [exc |-> NoneVal, val |-> GetAttr("TLS_METHOD", SSLValue("SSLv23_METHOD"))]

ResolveMethod_ignoresArgument(method) == ProbeMethod

\* lines 62-65
ResolveMethod(method) ==
    IF method = NoneVal THEN ProbeMethod
    ELSE [exc |-> NoneVal, val |-> method]

\* truth value of a str | None
Truthy(opt) == opt.some /\ opt.val # <<>>

CipherPolicy_noEmptyCheck(tls_ciphers) ==
    IF tls_ciphers.some THEN fromOpenSSLCipherString(tls_ciphers.val)
    ELSE { [exc |-> NoneVal, val |-> DEFAULT_CIPHERS] }

\* lines 67-71: the outcomes of resolving the cipher policy
CipherPolicy(tls_ciphers) ==
    IF Truthy(tls_ciphers) THEN fromOpenSSLCipherString(tls_ciphers.val)
    ELSE { [exc |-> NoneVal, val |-> DEFAULT_CIPHERS] }

\* The outcomes of cls(method, tls_verbose_logging, tls_ciphers) for cls a
\* (subclass of) ScrapyClientContextFactory.  via records the entry point;
\* args is a history field: the arguments the object was built from.
ScrapyClientContextFactory__init__(cls, method, tls_verbose_logging, tls_ciphers, via) ==
    LET m == ResolveMethod(IF method = Omitted THEN NoneVal ELSE method)
    IN  IF m.exc # NoneVal
        THEN { [exc |-> m.exc, obj |-> NoObj, warn |-> <<>>] }
        ELSE { IF c.exc # NoneVal
               THEN [exc |-> c.exc, obj |-> NoObj, warn |-> <<>>]
               ELSE [exc |-> NoneVal,
                     obj |-> [cls |-> cls,
                              _ssl_method |-> m.val,
                              tls_verbose_logging |-> tls_verbose_logging,
                              tls_ciphers |-> c.val,
                              args |-> [method |-> method,
                                        tls_ciphers |-> tls_ciphers,
                                        via |-> via]],
                     warn |-> IF method_is_overridden(cls)
                              THEN <<"ScrapyDeprecationWarning">> ELSE <<>>]
               : c \in CipherPolicy(tls_ciphers) }

\* ScrapyClientContextFactory.from_crawler: the default of its method
\* parameter is SSL.SSLv23_METHOD, evaluated when the class body runs.
from_crawler(cls, crawler, method) ==
    LET m == IF method = Omitted THEN SSLValue("SSLv23_METHOD") ELSE method
        outs == ScrapyClientContextFactory__init__(
                    cls, m, crawler.tls_verbose_logging, crawler.tls_ciphers,
                    "from_crawler")
    IN  { IF o.exc # NoneVal THEN o
          ELSE [o EXCEPT !.obj.args.method = method] : o \in outs }

----------------------------------------------------------------------------
(* Methods of the factories.  h is the heap
   [certopts, contexts, configs, nextId]; every operator returns the heap
   after the call and the id of the returned object. *)

Heap == [certopts |-> certopts, contexts |-> contexts, configs |-> configs,
         nextId |-> nextId]

\* twisted CertificateOptions(...): a new object; owner is a history field
NewCertificateOptions(h, fid, fields) ==
    LET id == h.nextId
    IN  [h |-> [h EXCEPT !.certopts = @ @@ (id :> ([owner |-> fid, _context |-> 0] @@ fields)),
                         !.nextId = id + 1],
         ret |-> id]

getCertificateOptions_cached(h, fid) ==
    LET mine == { i \in DOMAIN h.certopts : h.certopts[i].owner = fid }
    IN  IF mine # {} THEN [h |-> h, ret |-> CHOOSE i \in mine : TRUE]
        ELSE NewCertificateOptions(h, fid,
                 [verify |-> FALSE,
                  method |-> factories[fid]._ssl_method,
                  fixBrokenPeers |-> TRUE,
                  acceptableCiphers |-> factories[fid].tls_ciphers,
                  trustRoot |-> NoneVal])

\* ScrapyClientContextFactory.getCertificateOptions
getCertificateOptions(h, fid) ==
    NewCertificateOptions(h, fid,
        [verify |-> FALSE,
         method |-> factories[fid]._ssl_method,
         fixBrokenPeers |-> TRUE,
         acceptableCiphers |-> factories[fid].tls_ciphers,
         trustRoot |-> NoneVal])

\* twisted CertificateOptions.getContext(): one SSL.Context per
\* CertificateOptions object, made on first use
CertificateOptions_getContext(h, coid) ==
    LET co == h.certopts[coid]
        id == h.nextId
    IN  IF co._context # 0 THEN [h |-> h, ret |-> co._context]
        ELSE [h |-> [h EXCEPT !.contexts = @ @@ (id :>
                                  [method |-> co.method,
                                   ciphers |-> co.acceptableCiphers,
                                   verify |-> co.verify,
                                   trustRoot |-> co.trustRoot,
                                   options |-> {},
                                   protocols |-> <<>>]),
                              !.certopts[coid]._context = id,
                              !.nextId = id + 1],
              ret |-> id]

\* lines 117-125: the mask handed to ctx.set_options
OptionMask ==
    LET op_no_tlsv1 == GetAttr("OP_NO_TLSv1", {})
        op_no_tlsv1_1 == GetAttr("OP_NO_TLSv1_1", {})
        op_no_sslv2 == GetAttr("OP_NO_SSLv2", {})
        op_no_sslv3 == GetAttr("OP_NO_SSLv3", {})
        op_legacy == GetAttr("OP_LEGACY_SERVER_CONNECT", {2})
        disable_flags == op_no_tlsv1 \cup op_no_tlsv1_1 \cup op_no_sslv2 \cup op_no_sslv3
    IN  op_legacy \cup disable_flags

\* ScrapyClientContextFactory.getContext
getContext(h, fid) ==
    LET co == getCertificateOptions(h, fid)
        ctx == CertificateOptions_getContext(co.h, co.ret)
    IN  [h |-> [ctx.h EXCEPT !.contexts[ctx.ret].options = @ \cup OptionMask],
         ret |-> ctx.ret]

NewConfig(h, fields) ==
    LET id == h.nextId
    IN  [exc |-> NoneVal,
         h |-> [h EXCEPT !.configs = @ @@ (id :> fields), !.nextId = id + 1],
         ret |-> id]

Raised(h, exc) == [exc |-> exc, h |-> h, ret |-> 0]

\* ScrapyClientContextFactory.creatorForNetloc
BaseCreatorForNetloc(h, fid, hostname) ==
    IF ~IsAscii(hostname) THEN Raised(h, "UnicodeDecodeError")
    ELSE LET ctx == getContext(h, fid)
         IN  NewConfig(ctx.h,
                 [cls |-> "ScrapyClientTLSOptions",
                  hostname |-> DecodeAscii(hostname),
                  _ctx |-> ctx.ret,
                  verbose_logging |-> factories[fid].tls_verbose_logging,
                  owner |-> fid])

\* BrowserLikeContextFactory.creatorForNetloc: twisted's optionsForClientTLS
\* builds CertificateOptions(trustRoot=..., **extraCertificateOptions) and
\* wraps its context
BrowserCreatorForNetloc(h, fid, hostname) ==
    IF ~IsAscii(hostname) THEN Raised(h, "UnicodeDecodeError")
    ELSE LET co == NewCertificateOptions(h, fid,
                       [verify |-> TRUE,
                        method |-> factories[fid]._ssl_method,
                        fixBrokenPeers |-> FALSE,
                        acceptableCiphers |-> LibraryCiphers,
                        trustRoot |-> "platformTrust"])
             ctx == CertificateOptions_getContext(co.h, co.ret)
         IN  NewConfig(ctx.h,
                 [cls |-> "ClientTLSOptions",
                  hostname |-> DecodeAscii(hostname),
                  _ctx |-> ctx.ret,
                  verbose_logging |-> FALSE,
                  owner |-> fid])

----------------------------------------------------------------------------
(* AcceptableProtocolsContextFactory *)

\* objects of user classes that may be handed to the wrapper
PlainCls == "PlainObject"

UndeclaredCls == "UndeclaredFactory"

IncompleteCls == "DeclaredWithoutCreator"

PresetCls == "PresetProtocolsFactory"

ForeignClasses == {PlainCls, UndeclaredCls, IncompleteCls, PresetCls}

\* IPolicyForHTTPS.providedBy(obj)
Provides(cls) == cls \in ScrapyClasses \cup {WrapperCls, IncompleteCls, PresetCls}

\* obj has a creatorForNetloc(hostname, port) method
HasCreatorForNetloc(cls) == cls \in ScrapyClasses \cup {WrapperCls, UndeclaredCls, PresetCls}

\* zope.interface.verify.verifyObject(IPolicyForHTTPS, obj): the exception raised
verifyObject(cls) ==
    IF ~Provides(cls) THEN "DoesNotImplement"
    ELSE IF ~HasCreatorForNetloc(cls) THEN "BrokenImplementation"
    ELSE NoneVal

ProtocolLists == { <<>>, <<"h2">>, <<"h2", "http/1.1">> }

PresetProtocols == <<"http/1.1">>

AcceptableProtocolsContextFactory__init___unchecked(context_factory, acceptable_protocols) ==
    [exc |-> NoneVal,
     obj |-> [cls |-> WrapperCls,
              _wrapped_context_factory |-> context_factory,
              _acceptable_protocols |-> acceptable_protocols]]

\* AcceptableProtocolsContextFactory.__init__ (context_factory is an object id)
AcceptableProtocolsContextFactory__init__(context_factory, acceptable_protocols) ==
    LET v == verifyObject(factories[context_factory].cls)
    IN  IF v # NoneVal THEN [exc |-> v, obj |-> NoObj]
        ELSE [exc |-> NoneVal,
              obj |-> [cls |-> WrapperCls,
                       _wrapped_context_factory |-> context_factory,
                       _acceptable_protocols |-> acceptable_protocols]]

\* twisted _setAcceptableProtocols(context, acceptableProtocols): registers
\* the list for NPN/ALPN; with nothing to negotiate it sets nothing up
setAcceptableProtocols(ctx, acceptableProtocols) ==
    IF acceptableProtocols = <<>> THEN ctx
    ELSE [ctx EXCEPT !.protocols = acceptableProtocols]

\* creatorForNetloc of a user factory that builds its options with its own
\* acceptableProtocols
PresetCreatorForNetloc(h, fid, hostname) ==
    IF ~IsAscii(hostname) THEN Raised(h, "UnicodeDecodeError")
    ELSE LET co == NewCertificateOptions(h, fid,
                       [verify |-> TRUE,
                        method |-> "TLS_METHOD",
                        fixBrokenPeers |-> FALSE,
                        acceptableCiphers |-> LibraryCiphers,
                        trustRoot |-> "platformTrust"])
             ctx == CertificateOptions_getContext(co.h, co.ret)
             set == [ctx.h EXCEPT !.contexts[ctx.ret] =
                                      setAcceptableProtocols(@, PresetProtocols)]
         IN  NewConfig(set,
                 [cls |-> "ClientTLSOptions",
                  hostname |-> DecodeAscii(hostname),
                  _ctx |-> ctx.ret,
                  verbose_logging |-> FALSE,
                  owner |-> fid])

RECURSIVE creatorForNetloc(_, _, _)

WrapperCreatorForNetloc_noOverride(h, fid, hostname) ==
    creatorForNetloc(h, factories[fid]._wrapped_context_factory, hostname)

\* AcceptableProtocolsContextFactory.creatorForNetloc
WrapperCreatorForNetloc(h, fid, hostname) ==
    LET options == creatorForNetloc(h, factories[fid]._wrapped_context_factory, hostname)
    IN  IF options.exc # NoneVal THEN options
        ELSE [options EXCEPT !.h.contexts[options.h.configs[options.ret]._ctx] =
                  setAcceptableProtocols(@, factories[fid]._acceptable_protocols)]

\* obj.creatorForNetloc(hostname, port), dispatched on the object's class
creatorForNetloc(h, fid, hostname) ==
    LET cls == factories[fid].cls
    IN  CASE cls = BrowserCls -> BrowserCreatorForNetloc(h, fid, hostname)
          [] cls = WrapperCls -> WrapperCreatorForNetloc(h, fid, hostname)
          [] cls = PresetCls -> PresetCreatorForNetloc(h, fid, hostname)
          [] OTHER -> BaseCreatorForNetloc(h, fid, hostname)

\* the factory at the bottom of a chain of wrappers
RECURSIVE Innermost(_)
Innermost(fid) ==
    IF factories[fid].cls = WrapperCls
    THEN Innermost(factories[fid]._wrapped_context_factory)
    ELSE fid

----------------------------------------------------------------------------
(* load_context_factory_from_settings *)

MethodNames == {"TLS", "TLSv1.2", "FOO"}

\* the method a table associates with a name
TableValue(name) ==
    CASE name = "TLS" -> "SSLv23_METHOD"
      [] name = "TLSv1.2" -> "TLSv1_2_METHOD"
      [] OTHER -> "TLSv1_METHOD"

Tables == { [n \in keys |-> TableValue(n)] : keys \in SUBSET MethodNames }

DefaultTable == [n \in {"TLS", "TLSv1.2"} |-> TableValue(n)]

\* classes a DOWNLOADER_CLIENTCONTEXTFACTORY path may name
LegacyCls == "LegacyFactory"

TypeCheckingCls == "TypeCheckingFactory"

AlwaysTypeErrorCls == "AlwaysTypeErrorFactory"

ValueErrorCls == "ValueErrorFactory"

UnloadablePath == "no.such.Factory"

UserClasses == {LegacyCls, TypeCheckingCls, AlwaysTypeErrorCls, ValueErrorCls}

FactoryPaths == ScrapyClasses \cup UserClasses \cup {UnloadablePath}

\* what the constructor of a user class does:
\*   accepts_method: its signature has a `method` parameter
\*   with_method / no_args: what its body raises when called that way
ClassSpec(path) ==
    CASE path = LegacyCls ->
           [accepts_method |-> FALSE, with_method |-> NoneVal, no_args |-> NoneVal]
      [] path = TypeCheckingCls ->
           [accepts_method |-> TRUE, with_method |-> "TypeError", no_args |-> NoneVal]
      [] path = AlwaysTypeErrorCls ->
           [accepts_method |-> TRUE, with_method |-> "TypeError", no_args |-> "TypeError"]
      [] path = ValueErrorCls ->
           [accepts_method |-> TRUE, with_method |-> "ValueError", no_args |-> "ValueError"]
      [] OTHER ->
           [accepts_method |-> TRUE, with_method |-> NoneVal, no_args |-> NoneVal]

\* scrapy.utils.misc.load_object(path): the exception raised
load_object(path) == IF path = UnloadablePath THEN "NameError" ELSE NoneVal

\* scrapy.utils.misc.build_from_crawler(objcls, crawler, [method=method]):
\* calls objcls.from_crawler when the class has one, objcls(...) otherwise.
\* mismatch tells that the call was rejected by the constructor's signature.
build_from_crawler(objcls, crawler, method) ==
    IF objcls \in ScrapyClasses
    THEN { [exc |-> o.exc, obj |-> o.obj, warn |-> o.warn, mismatch |-> FALSE]
           : o \in from_crawler(objcls, crawler, method) }
    ELSE LET c == ClassSpec(objcls)
             e == IF method = Omitted THEN c.no_args ELSE c.with_method
         IN  IF method # Omitted /\ ~c.accepts_method
             THEN { [exc |-> "TypeError", obj |-> NoObj, warn |-> <<>>, mismatch |-> TRUE] }
             ELSE { [exc |-> e,
                     obj |-> IF e = NoneVal
                             THEN [cls |-> objcls, args |-> [method |-> method]]
                             ELSE NoObj,
                     warn |-> <<>>,
                     mismatch |-> FALSE] }

LookupMethod_withDefault(table, name) ==
    IF name \in DOMAIN table THEN [exc |-> NoneVal, val |-> table[name]]
    ELSE [exc |-> NoneVal, val |-> SSLValue("SSLv23_METHOD")]

\* line 190: openssl_methods[settings.get("DOWNLOADER_CLIENT_TLS_METHOD")]
LookupMethod(table, name) ==
    IF name \in DOMAIN table THEN [exc |-> NoneVal, val |-> table[name]]
    ELSE [exc |-> "KeyError", val |-> NoneVal]

Outcome(exc, obj, warn, events, first) ==
    [exc |-> exc, obj |-> obj, warn |-> warn, trace |-> events, first |-> first]

ExceptTypeError_warnFirst(objcls, crawler, first, events) ==
    { IF o.exc # NoneVal
      THEN Outcome(o.exc, NoObj, <<"UserWarning">>,
                   events \o <<"warn", "build()", "raise">>, first)
      ELSE Outcome(NoneVal, o.obj, <<"UserWarning">> \o o.warn,
                   events \o <<"warn", "build()", "return">>, first)
      : o \in build_from_crawler(objcls, crawler, Omitted) }

\* lines 199-212: the handler of TypeError
ExceptTypeError(objcls, crawler, first, events) ==
    { IF o.exc # NoneVal
      THEN Outcome(o.exc, NoObj, <<>>, events \o <<"build()", "raise">>, first)
      ELSE Outcome(NoneVal, o.obj, o.warn \o <<"UserWarning">>,
                   events \o <<"build()", "warn", "return">>, first)
      : o \in build_from_crawler(objcls, crawler, Omitted) }

\* The outcomes of load_context_factory_from_settings(settings, crawler):
\* exception, object returned, warnings emitted, events in order, and the
\* result of the first construction attempt.
load_context_factory_from_settings(settings, crawler) ==
    LET ssl_method == LookupMethod(openssl_methods, settings.DOWNLOADER_CLIENT_TLS_METHOD)
        path == settings.DOWNLOADER_CLIENTCONTEXTFACTORY
        NoFirst == [exc |-> NoneVal, mismatch |-> FALSE, tried |-> FALSE]
    IN  IF ssl_method.exc # NoneVal
        THEN { Outcome(ssl_method.exc, NoObj, <<>>, <<"lookup", "raise">>, NoFirst) }
        ELSE IF load_object(path) # NoneVal
        THEN { Outcome(load_object(path), NoObj, <<>>,
                       <<"lookup", "load_object", "raise">>, NoFirst) }
        ELSE UNION {
            LET first == [exc |-> o.exc, mismatch |-> o.mismatch, tried |-> TRUE]
                events == <<"lookup", "load_object", "build(method)">>
            IN  IF o.exc = NoneVal
                THEN { Outcome(NoneVal, o.obj, o.warn, events \o <<"return">>, first) }
                ELSE IF o.exc = "TypeError"
                THEN ExceptTypeError(path, crawler, first, events \o <<"TypeError">>)
                ELSE { Outcome(o.exc, NoObj, <<>>, events \o <<"raise">>, first) }
            : o \in build_from_crawler(path, crawler, ssl_method.val) }

----------------------------------------------------------------------------
(* Actions *)

SetHeap(h) ==
    /\ certopts' = h.certopts
    /\ contexts' = h.contexts
    /\ configs' = h.configs
    /\ nextId' = h.nextId

\* a constructor finished: the new object, if any, enters the heap
Install(op, o) ==
    IF o.exc # NoneVal
    THEN /\ result' = [op |-> op, exc |-> o.exc, ret |-> 0]
         /\ UNCHANGED <<factories, nextId, warnings>>
    ELSE /\ factories' = factories @@ (nextId :> o.obj)
         /\ nextId' = nextId + 1
         /\ warnings' = warnings \o o.warn
         /\ result' = [op |-> op, exc |-> NoneVal, ret |-> nextId]

\* Importing contextfactory.py runs the class body, which evaluates the
\* default SSL.SSLv23_METHOD of from_crawler's method parameter (line 84).
ImportModule ==
    /\ module = "unloaded"
    /\ IF "SSLv23_METHOD" \in ssl
       THEN /\ module' = "loaded"
            /\ result' = [op |-> "import", exc |-> NoneVal, ret |-> 0]
       ELSE /\ module' = "failed"
            /\ result' = [op |-> "import", exc |-> "AttributeError", ret |-> 0]
    /\ UNCHANGED <<ssl, openssl_methods, factories, certopts, contexts, configs,
                   nextId, calls, trace, warnings>>

\* cls(method, tls_verbose_logging, tls_ciphers): the process's factory
Construct(classes, methods, verboses, cipherArgs) ==
    /\ module = "loaded"
    /\ DOMAIN factories = {}
    /\ \E cls \in classes, method \in methods, v \in verboses, c \in cipherArgs :
         \E o \in ScrapyClientContextFactory__init__(cls, method, v, c, "__init__") :
            Install("__init__", o)
    /\ UNCHANGED <<ssl, module, openssl_methods, certopts, contexts, configs,
                   calls, trace>>

\* cls.from_crawler(crawler[, method])
FromCrawler(classes, methods, verboses, cipherArgs) ==
    /\ module = "loaded"
    /\ DOMAIN factories = {}
    /\ \E cls \in classes, method \in methods, v \in verboses, c \in cipherArgs :
         \E o \in from_crawler(cls, [tls_verbose_logging |-> v, tls_ciphers |-> c], method) :
            Install("from_crawler", o)
    /\ UNCHANGED <<ssl, module, openssl_methods, certopts, contexts, configs,
                   calls, trace>>

Call(op, fid, hostname, exc, ret) ==
    [op |-> op, self |-> fid, hostname |-> hostname, exc |-> exc, ret |-> ret]

Record(c) ==
    /\ calls' = Append(calls, c)
    /\ result' = [op |-> c.op, exc |-> c.exc, ret |-> c.ret]

GetCertificateOptions ==
    /\ Len(calls) < MaxCalls
    /\ \E fid \in DOMAIN factories :
         /\ factories[fid].cls \in ScrapyClasses
         /\ LET r == getCertificateOptions(Heap, fid)
            IN  /\ SetHeap(r.h)
                /\ Record(Call("getCertificateOptions", fid, <<>>, NoneVal, r.ret))
    /\ UNCHANGED <<ssl, module, openssl_methods, factories, trace, warnings>>

\* getContext() of a class that overrides it is user code, not modelled
GetContext ==
    /\ Len(calls) < MaxCalls
    /\ \E fid \in DOMAIN factories :
         /\ factories[fid].cls \in {BaseCls, BrowserCls}
         /\ LET r == getContext(Heap, fid)
            IN  /\ SetHeap(r.h)
                /\ Record(Call("getContext", fid, <<>>, NoneVal, r.ret))
    /\ UNCHANGED <<ssl, module, openssl_methods, factories, trace, warnings>>

CreatorForNetloc(limit) ==
    /\ Len(calls) < limit
    /\ \E fid \in DOMAIN factories, hostname \in Hostnames :
         /\ factories[fid].cls \in {BaseCls, BrowserCls, WrapperCls, PresetCls}
         /\ LET r == creatorForNetloc(Heap, fid, hostname)
            IN  /\ SetHeap(r.h)
                /\ Record(Call("creatorForNetloc", fid, hostname, r.exc, r.ret))
    /\ UNCHANGED <<ssl, module, openssl_methods, factories, trace, warnings>>

\* user code instantiates one of its own classes
ConstructForeign ==
    /\ module = "loaded"
    /\ DOMAIN factories = {}
    /\ \E cls \in ForeignClasses :
         Install("foreign", [exc |-> NoneVal, obj |-> [cls |-> cls], warn |-> <<>>])
    /\ UNCHANGED <<ssl, module, openssl_methods, certopts, contexts, configs,
                   calls, trace>>

Wrappers == { i \in DOMAIN factories : factories[i].cls = WrapperCls }

\* AcceptableProtocolsContextFactory(context_factory, acceptable_protocols);
\* result keeps the arguments of the call
ConstructWrapper ==
    /\ module = "loaded"
    /\ Cardinality(Wrappers) < MaxWrappers
    /\ \E inner \in DOMAIN factories, protocols \in ProtocolLists :
         LET o == AcceptableProtocolsContextFactory__init__(inner, protocols)
         IN  /\ IF o.exc # NoneVal
                THEN UNCHANGED <<factories, nextId>>
                ELSE /\ factories' = factories @@ (nextId :> o.obj)
                     /\ nextId' = nextId + 1
             /\ result' = [op |-> "AcceptableProtocolsContextFactory",
                           exc |-> o.exc,
                           ret |-> IF o.exc = NoneVal THEN nextId ELSE 0,
                           context_factory |-> inner,
                           acceptable_protocols |-> protocols]
    /\ UNCHANGED <<ssl, module, openssl_methods, certopts, contexts, configs,
                   calls, trace, warnings>>

\* load_context_factory_from_settings(settings, crawler)
LoadContextFactoryFromSettings(names, paths, verboses, cipherArgs) ==
    /\ module = "loaded"
    /\ Len(calls) < MaxResolves
    /\ \E name \in names, path \in paths, v \in verboses, c \in cipherArgs :
         LET settings == [DOWNLOADER_CLIENT_TLS_METHOD |-> name,
                          DOWNLOADER_CLIENTCONTEXTFACTORY |-> path]
             crawler == [tls_verbose_logging |-> v, tls_ciphers |-> c]
         IN  \E o \in load_context_factory_from_settings(settings, crawler) :
               /\ IF o.exc # NoneVal
                  THEN UNCHANGED <<factories, nextId>>
                  ELSE /\ factories' = factories @@ (nextId :> o.obj)
                       /\ nextId' = nextId + 1
               /\ warnings' = warnings \o o.warn
               /\ trace' = o.trace
               /\ result' = [op |-> "load_context_factory_from_settings",
                             exc |-> o.exc,
                             ret |-> IF o.exc = NoneVal THEN nextId ELSE 0,
                             name |-> name, path |-> path,
                             first |-> o.first, warned |-> o.warn]
               /\ calls' = Append(calls, Call("load_context_factory_from_settings",
                                              0, <<>>, o.exc,
                                              IF o.exc = NoneVal THEN nextId ELSE 0))
    /\ UNCHANGED <<ssl, module, openssl_methods, certopts, contexts, configs>>

----------------------------------------------------------------------------
(* Specifications *)

AllCipherArgs == {None} \cup { Some(s) : s \in CipherStrings }

InitCommon ==
    /\ factories = EmptyHeap
    /\ certopts = EmptyHeap
    /\ contexts = EmptyHeap
    /\ configs = EmptyHeap
    /\ nextId = 1
    /\ calls = <<>>
    /\ result = NoResult
    /\ trace = <<>>
    /\ warnings = <<>>

\* One process on a full TLS library: its factory and the calls made on it
Init ==
    /\ ssl = SSLSymbols
    /\ module = "loaded"
    /\ openssl_methods = DefaultTable
    /\ InitCommon

ConstructAny ==
    Construct(ScrapyClasses, ExplicitMethods \cup {NoneVal}, BOOLEAN, AllCipherArgs)

FromCrawlerAny ==
    FromCrawler(ScrapyClasses, ExplicitMethods \cup {NoneVal, Omitted}, BOOLEAN, AllCipherArgs)

Next ==
    \/ ConstructAny
    \/ FromCrawlerAny
    \/ GetCertificateOptions
    \/ GetContext
    \/ CreatorForNetloc(MaxCalls)

Spec == Init /\ [][Next]_vars

\* Any TLS library: every set of symbols OpenSSL.SSL may expose
InitLibrary ==
    /\ ssl \in SUBSET SSLSymbols
    /\ module = "unloaded"
    /\ openssl_methods = DefaultTable
    /\ InitCommon

ConstructDefault ==
    Construct({BaseCls, BrowserCls}, {NoneVal, "TLSv1_2_METHOD"}, {FALSE}, {None})

FromCrawlerDefault ==
    FromCrawler({BaseCls, BrowserCls}, {Omitted, NoneVal, "TLSv1_2_METHOD"}, {FALSE}, {None})

NextLibrary ==
    \/ ImportModule
    \/ ConstructDefault
    \/ FromCrawlerDefault
    \/ GetContext
    \/ CreatorForNetloc(MaxCalls)

SpecLibrary == InitLibrary /\ [][NextLibrary]_vars

\* Wrapping factories in AcceptableProtocolsContextFactory
ConstructInner ==
    Construct({BaseCls, BrowserCls}, {NoneVal}, {TRUE}, {None})

NextWrapper ==
    \/ ConstructInner
    \/ ConstructForeign
    \/ ConstructWrapper
    \/ CreatorForNetloc(MaxWrapperCalls)

SpecWrapper == Init /\ [][NextWrapper]_vars

\* Resolving the factory from settings, for every method table
InitResolve ==
    /\ ssl = SSLSymbols
    /\ module = "loaded"
    /\ openssl_methods \in Tables
    /\ InitCommon

Resolve ==
    LoadContextFactoryFromSettings(MethodNames \cup {NoneVal}, FactoryPaths, {FALSE},
                                   {None, Some(<<"BOGUS">>)})

NextResolve == Resolve

SpecResolve == InitResolve /\ [][NextResolve]_vars

----------------------------------------------------------------------------
(* Properties *)

ResolveOp == "load_context_factory_from_settings"

InTrace(e) == \E i \in 1..Len(trace) : trace[i] = e

SuccessfulCalls(op) ==
    { i \in 1..Len(calls) : calls[i].op = op /\ calls[i].exc = NoneVal }

ResolveStep == Len(calls') = Len(calls) + 1 /\ result'.op = ResolveOp

C1_Step ==
    ResolveStep =>
        /\ result'.name \in DOMAIN openssl_methods => result'.exc # "KeyError"
        /\ result'.name \notin DOMAIN openssl_methods =>
               /\ result'.exc = "KeyError"
               /\ result'.ret = 0
               /\ trace' = <<"lookup", "raise">>
               /\ ~result'.first.tried
               /\ factories' = factories
               /\ nextId' = nextId
               /\ warnings' = warnings

\* C1: load_context_factory_from_settings never fails with the unknown-method
\* error (KeyError) when the settings' method name is a key of the table, and
\* always fails with it when the name is not a key; in that case the lookup
\* is the only step taken: the class is not loaded, neither construction is
\* attempted, no factory is made and no warning is emitted.
C1_UnknownMethodFailsFirst == [][C1_Step]_vars

C1_Witness ==
    /\ result.op = ResolveOp
    /\ result.name = "FOO"
    /\ "FOO" \notin DOMAIN openssl_methods
    /\ result.exc = "KeyError"

\* C2: the no-argument construction is attempted only when the first
\* construction was rejected by the constructor's signature; every other
\* failure of the first construction (a TypeError raised inside a
\* constructor that accepts `method` included) reaches the caller unchanged,
\* with no second construction, no warning and no factory.
C2_FallbackOnlyOnSignatureMismatch ==
    result.op = ResolveOp =>
        /\ InTrace("build()") => result.first.mismatch
        /\ (result.first.tried /\ result.first.exc # NoneVal /\ ~result.first.mismatch) =>
               /\ result.exc = result.first.exc
               /\ result.ret = 0
               /\ result.warned = <<>>
               /\ ~InTrace("build()")
               /\ ~InTrace("warn")

C3_Step ==
    ResolveStep =>
        /\ (result'.name \in DOMAIN openssl_methods /\ result'.path = LegacyCls) =>
               /\ result'.exc = NoneVal
               /\ trace' = <<"lookup", "load_object", "build(method)", "TypeError",
                             "build()", "warn", "return">>
               /\ result'.warned = <<"UserWarning">>
               /\ warnings' = Append(warnings, "UserWarning")
               /\ result'.ret = nextId
               /\ factories' = factories @@
                      (nextId :> [cls |-> LegacyCls, args |-> [method |-> Omitted]])
        /\ (result'.first.tried /\ result'.first.exc = NoneVal) =>
               /\ result'.exc = NoneVal
               /\ trace' = <<"lookup", "load_object", "build(method)", "return">>
               /\ warnings' = warnings \o result'.warned
               /\ \A i \in 1..Len(result'.warned) : result'.warned[i] # "UserWarning"
               /\ DOMAIN factories' = DOMAIN factories \cup {nextId}
               /\ factories'[nextId].args.method = openssl_methods[result'.name]

C4_ProbeNeverFails ==
    /\ (ssl \cap MethodSymbols # {}) =>
           /\ module # "failed"
           /\ result.exc # "AttributeError"
    /\ \A f \in DOMAIN factories :
           (factories[f].cls \in ScrapyClasses
              /\ factories[f].args.method \in {NoneVal, Omitted}) =>
               factories[f]._ssl_method =
                   IF "TLS_METHOD" \in ssl THEN "TLS_METHOD" ELSE "SSLv23_METHOD"

\* the configs returned by the wrapper carry the wrapper's protocol list
WrapperCalls ==
    { i \in SuccessfulCalls("creatorForNetloc") : factories[calls[i].self].cls = WrapperCls }

C5_Step ==
    Len(calls') = Len(calls) + 1 =>
        LET c == calls'[Len(calls')]
        IN  (c.op = "creatorForNetloc" /\ c.exc = NoneVal
               /\ factories[c.self].cls = WrapperCls) =>
            LET w == factories[c.self]
                inner == creatorForNetloc(Heap, w._wrapped_context_factory, c.hostname)
                cx == configs'[c.ret]._ctx
            IN  /\ inner.exc = NoneVal
                /\ c.ret = inner.ret
                /\ configs' = inner.h.configs
                /\ certopts' = inner.h.certopts
                /\ nextId' = inner.h.nextId
                /\ DOMAIN contexts' = DOMAIN inner.h.contexts
                /\ \A k \in DOMAIN contexts' \ {cx} : contexts'[k] = inner.h.contexts[k]
                /\ [contexts'[cx] EXCEPT !.protocols = inner.h.contexts[cx].protocols]
                       = inner.h.contexts[cx]
                /\ contexts'[cx].protocols =
                       IF w._acceptable_protocols # <<>> THEN w._acceptable_protocols
                       ELSE inner.h.contexts[cx].protocols

C6_Step ==
    Len(calls') = Len(calls) + 1 =>
        LET c == calls'[Len(calls')]
        IN  /\ factories' = factories
            /\ \A k \in DOMAIN configs : k \in DOMAIN configs' /\ configs'[k] = configs[k]
            /\ \A k \in DOMAIN contexts : k \in DOMAIN contexts' /\ contexts'[k] = contexts[k]
            /\ (c.op = "getContext" /\ c.exc = NoneVal) =>
                   /\ c.ret \in DOMAIN contexts' \ DOMAIN contexts
                   /\ \A k \in DOMAIN configs' : configs'[k]._ctx # c.ret
            /\ (c.op = "creatorForNetloc" /\ c.exc = NoneVal) =>
                   /\ c.ret \in DOMAIN configs' \ DOMAIN configs
                   /\ configs'[c.ret]._ctx \in DOMAIN contexts' \ DOMAIN contexts
                   /\ \A j \in 1..Len(calls) : calls[j].ret # configs'[c.ret]._ctx

\* C6: every creatorForNetloc / getContext call on a factory, in any
\* interleaving, returns a newly allocated config with a newly allocated
\* context of its own (no earlier call returned or holds either object),
\* leaves the configs and contexts of earlier calls as they were, and leaves
\* the factory's fields unchanged.
C6_FreshPerCall == [][C6_Step]_vars

C6_Witness ==
    \E i, j \in SuccessfulCalls("creatorForNetloc") :
        /\ i < j
        /\ calls[i].self = calls[j].self
        /\ factories[calls[i].self].cls = BaseCls
        /\ calls[i].hostname = calls[j].hostname
        /\ calls[i].ret # calls[j].ret
        /\ \E g \in SuccessfulCalls("getContext") : i < g /\ g < j

MethodInv ==
    /\ \A f \in DOMAIN factories :
           factories[f].args.method \notin {NoneVal, Omitted} =>
               factories[f]._ssl_method = factories[f].args.method
    /\ \A k \in DOMAIN certopts :
           certopts[k].method = factories[certopts[k].owner]._ssl_method
    /\ \A k \in DOMAIN configs :
           contexts[configs[k]._ctx].method = factories[configs[k].owner]._ssl_method
    /\ \A i \in SuccessfulCalls("getContext") :
           contexts[calls[i].ret].method = factories[calls[i].self]._ssl_method

C8_Step ==
    /\ \A f \in DOMAIN factories :
           f \in DOMAIN factories' /\ factories'[f]._ssl_method = factories[f]._ssl_method
    /\ MethodInv'

\* C8: a method given to the constructor is the factory's method; no call of
\* getCertificateOptions, getContext or creatorForNetloc changes a factory's
\* method; every certificate-options object and every per-connection config
\* a factory produces (base and browser-trust variant) has that method.
C8_OneMethod == [][C8_Step]_vars

C8_Witness ==
    \E k \in DOMAIN configs :
        LET f == factories[configs[k].owner]
        IN  /\ f.cls = BrowserCls
            /\ f.args.method = "TLSv1_2_METHOD"
            /\ contexts[configs[k]._ctx].method = "TLSv1_2_METHOD"
            /\ SuccessfulCalls("getCertificateOptions") # {}

SatisfiesCapability(cls) == Provides(cls) /\ HasCreatorForNetloc(cls)

C9_Step ==
    /\ \A w \in Wrappers' :
           SatisfiesCapability(factories'[factories'[w]._wrapped_context_factory].cls)
    /\ result'.op = "AcceptableProtocolsContextFactory" =>
           IF SatisfiesCapability(factories[result'.context_factory].cls)
           THEN /\ result'.exc = NoneVal
                /\ result'.ret = nextId
                /\ factories' = factories @@ (nextId :>
                       [cls |-> WrapperCls,
                        _wrapped_context_factory |-> result'.context_factory,
                        _acceptable_protocols |-> result'.acceptable_protocols])
           ELSE /\ result'.exc \in {"DoesNotImplement", "BrokenImplementation"}
                /\ result'.ret = 0
                /\ factories' = factories

\* C9: constructing the wrapper over an object that does not satisfy the
\* context-factory capability fails with the incompatible-factory error and
\* creates no wrapper (so every wrapper that exists wraps a capable
\* factory); over a capable factory it succeeds and stores exactly the given
\* factory and protocol list.
C9_WrapperConstruction == [][C9_Step]_vars

C9_Witness ==
    /\ result.op = "AcceptableProtocolsContextFactory"
    /\ factories[result.context_factory].cls = UndeclaredCls
    /\ result.exc = "DoesNotImplement"
    /\ Wrappers = {}

\* the OR of the option flags the library exposes, an absent flag counting 0
AvailableFlags == UNION { SSLValue(s) : s \in FlagSymbols \cap ssl }

\* C10: the option mask getContext applies is the OR of the
\* legacy-server-connect bit and the disable-legacy-protocol bits that the
\* library exposes, every absent flag (legacy-server-connect included)
\* contributing 0; the configs of the base factory carry this mask.
C10_MaskOfAvailableFlags ==
    /\ \A i \in SuccessfulCalls("getContext") :
           contexts[calls[i].ret].options = AvailableFlags
    /\ \A i \in SuccessfulCalls("creatorForNetloc") :
           factories[calls[i].self].cls = BaseCls =>
               contexts[configs[calls[i].ret]._ctx].options = AvailableFlags

====
